---- MODULE Spec2Model ----
(***************************************************************************)
(* Thermal block demo of pyMOR: the analytical problem                     *)
(* (pymor/analyticalproblems/thermalblock.py) and the simulation objects   *)
(* of the GUI demo (pymor/demos/thermalblock_gui.py).                      *)
(*                                                                         *)
(* Real numbers are modelled exactly: a coordinate or a block width is a   *)
(* rational <<num, den>> with den > 0, compared by cross multiplication.   *)
(* A spin box value PARAM_MIN + s * (PARAM_MAX - PARAM_MIN) / PARAM_STEPS  *)
(* is modelled by its step index s.                                        *)
(***************************************************************************)
EXTENDS Integers, Sequences, FiniteSets, TLC

VARIABLES
    args,        \* the docopt arguments after RBGui.__init__ converted them
    problem,     \* SimBase.problem: the ThermalBlockProblem
    spins,       \* ParamRuler.spins of the panel: the spin box values
    outcome,     \* what SimPanel.solve_update did, if it ran last: mu, the result
    evaluated,   \* the diffusion functions' values at a point, if evaluated last
    projected,   \* the value of a parameter functional, if evaluated last
    samples,     \* the training set sample_uniformly(SNAPSHOTS) returned
    reduced,     \* the ReducedSim: first, rb_discretization, reconstructor
    detailed,    \* the DetailedSim: first
    pc,          \* where the running ReducedSim.solve is ("idle": no call runs)
    call,        \* the running call of solve and its parameter
    result,      \* what the last finished call of solve did
    ncalls,      \* the solve calls made so far
    Basis,       \* greedy: the basis, a sequence of snapshots
    ROM,         \* greedy: the reduced model and reconstructor of the basis
    history,     \* greedy: the (selected mu, estimate) pairs
    u,           \* greedy: the snapshot FOM.solve returned in this iteration
    greedy_data, \* greedy: what the run returned or raised
    observed     \* counters of the run: FOM.solve calls, iterations, attempts

probVars == <<args, problem, spins, outcome, evaluated, projected>>
greedyVars == <<Basis, ROM, history, u, greedy_data, observed>>
simVars == <<samples, reduced, detailed, pc, call, result, ncalls>>
vars == <<probVars, simVars, greedyVars>>

(* An optional value (None in the source) is the empty set, a value v is   *)
(* the set {v}.                                                            *)

-----------------------------------------------------------------------------
(* Bounds of the model                                                     *)

\* XBLOCKS * YBLOCKS <= MaxCells
MaxCells == 4
\* points are taken on the grid that divides every block SubDiv times
SubDiv == 2
\* spin boxes take the step indices 0..MaxSpinStep
MaxSpinStep == 2
\* the training set has at most MaxTrain samples
MaxTrain == 3
\* RBSIZE <= MaxRBSize
MaxRBSize == 2
\* an error estimate is one of 0..MaxEstimate
MaxEstimate == 1
\* at most MaxCalls calls of solve are followed
MaxCalls == 3

-----------------------------------------------------------------------------
(* Exact rational arithmetic for `dx = 1 / num_blocks[0]` and the          *)
(* comparisons of evaluate (true division: `from __future__ import         *)
(* division`).                                                             *)

Rat(n, d) == <<n, d>>
RatTimesInt(k, r) == <<k * r[1], r[2]>>
RatGeq(a, b) == a[1] * b[2] >= b[1] * a[2]
RatLt(a, b) == a[1] * b[2] < b[1] * a[2]

-----------------------------------------------------------------------------
(* itertools.product(xrange(a), xrange(b)): the pairs <<x, y>>, x slowest  *)

product(a, b) == [k \in 1..(a * b) |-> <<(k - 1) \div b, (k - 1) % b>>]

(* ThermalBlockDiffusionFunction.__init__                                  *)
ThermalBlockDiffusionFunction(x, y, dx, dy) == [x |-> x, y |-> y, dx |-> dx, dy |-> dy]

(* ThermalBlockDiffusionFunction.evaluate at one point X = <<X0, X1>>:     *)
(* the product of the four comparisons, 1. or 0.                           *)
evaluate(self, X) ==
    IF /\ RatGeq(X[1], RatTimesInt(self.x, self.dx))
       /\ RatLt(X[1], RatTimesInt(self.x + 1, self.dx))
       /\ RatGeq(X[2], RatTimesInt(self.y, self.dy))
       /\ RatLt(X[2], RatTimesInt(self.y + 1, self.dy))
    THEN 1 ELSE 0

(* The factory without the flip of the row index: coordinates (y, x)       *)
parameter_functional_factory_noflip(num_blocks, x, y) ==
    [component_name  |-> "diffusion",
     component_shape |-> <<num_blocks[2], num_blocks[1]>>,
     coordinates     |-> <<y, x>>,
     name            |-> <<"diffusion", x, y>>]

(* The factory flipping with the block count of the wrong axis:            *)
(* coordinates (num_blocks[0] - y - 1, x)                                  *)
parameter_functional_factory_wrongaxis(num_blocks, x, y) ==
    [component_name  |-> "diffusion",
     component_shape |-> <<num_blocks[2], num_blocks[1]>>,
     coordinates     |-> <<num_blocks[1] - y - 1, x>>,
     name            |-> <<"diffusion", x, y>>]

(* parameter_functional_factory(x, y) of ThermalBlockProblem.__init__;     *)
(* num_blocks is <<nx, ny>>, so num_blocks[1] of the source (0-based) is   *)
(* num_blocks[2] here.                                                     *)
parameter_functional_factory(num_blocks, x, y) ==
    [component_name  |-> "diffusion",
     component_shape |-> <<num_blocks[2], num_blocks[1]>>,
     coordinates     |-> <<num_blocks[2] - y - 1, x>>,
     name            |-> <<"diffusion", x, y>>]

(* ThermalBlockProblem.__init__                                            *)
ThermalBlockProblem(num_blocks) ==
    LET dx == Rat(1, num_blocks[1])
        dy == Rat(1, num_blocks[2])
        blocks == product(num_blocks[1], num_blocks[2])
    IN  [num_blocks |-> num_blocks,
         parameter_space |-> [diffusion |-> <<num_blocks[2], num_blocks[1]>>],
         diffusion_functions |->
             [k \in DOMAIN blocks |->
                 ThermalBlockDiffusionFunction(blocks[k][1], blocks[k][2], dx, dy)],
         parameter_functionals |->
             [k \in DOMAIN blocks |->
                 parameter_functional_factory(num_blocks, blocks[k][1], blocks[k][2])]]

-----------------------------------------------------------------------------
(* Parameters: a 'diffusion' array of a shape, indexed from 0 in both      *)
(* dimensions.                                                             *)

Indices(shape) == (0..(shape[1] - 1)) \X (0..(shape[2] - 1))

(* numpy: np.array(values).reshape(shape), row major                       *)
reshape(values, shape) ==
    [shape |-> shape,
     data  |-> [c \in Indices(shape) |-> values[c[1] * shape[2] + c[2] + 1]]]

(* ProjectionParameterFunctional.evaluate: the entry of the component at   *)
(* the functional's coordinates; outside the array an IndexError           *)
(* (in_range FALSE).                                                       *)
ProjectionEvaluate(f, mu) ==
    IF f.coordinates \in Indices(mu.shape)
    THEN [in_range |-> TRUE, value |-> mu.data[f.coordinates]]
    ELSE [in_range |-> FALSE, value |-> -1]

(* The parameter of the problem's parameter type whose entries are all     *)
(* different: entry (r, c) holds r * columns + c.                          *)
DistinctParameter(shape) ==
    [shape |-> shape, data |-> [c \in Indices(shape) |-> c[1] * shape[2] + c[2]]]

(* discretization.solve(mu): the parameter is parsed against the           *)
(* parameter type, then every functional weighs its operator component.    *)
DiscretizationSolve(p, mu) ==
    IF mu.shape # p.parameter_space.diffusion
    THEN [status |-> "ParameterTypeMismatch", weights |-> <<>>, read_error |-> FALSE]
    ELSE [status |-> "ok",
          weights |-> [k \in DOMAIN p.parameter_functionals |->
                          ProjectionEvaluate(p.parameter_functionals[k], mu).value],
          read_error |-> \E k \in DOMAIN p.parameter_functionals :
                          ~ProjectionEvaluate(p.parameter_functionals[k], mu).in_range]

(* DetailedSim.solve                                                       *)
DetailedSim_solve(p, mu) == DiscretizationSolve(p, mu)

-----------------------------------------------------------------------------
(* The GUI of one SimPanel                                                 *)

BlockCounts == {nb \in (1..MaxCells) \X (1..MaxCells) : nb[1] * nb[2] <= MaxCells}

(* ParamRuler.__init__: one spin box per (i, j), i over XBLOCKS slowest,   *)
(* each set to PARAM_MIN (step 0).                                         *)
ParamRuler(a) == [k \in 1..(a.XBLOCKS * a.YBLOCKS) |-> 0]

(* SimPanel.solve_update: the parameter built from the spin boxes          *)
solve_update_mu(a, values) == reshape(values, <<a.XBLOCKS, a.YBLOCKS>>)

(* The points of [0,1]^2 on the grid dividing every block SubDiv times     *)
Points(nb) ==
    {<<Rat(a, nb[1] * SubDiv), Rat(b, nb[2] * SubDiv)>> :
        a \in 0..(nb[1] * SubDiv), b \in 0..(nb[2] * SubDiv)}

(* RBGui.__init__ and SimBase.__init__ for the arguments a: the problem,   *)
(* the spin boxes of the panel, nothing solved yet.                        *)
InitGui(a) ==
    /\ args = a
    /\ problem = ThermalBlockProblem(<<a.XBLOCKS, a.YBLOCKS>>)
    /\ spins = ParamRuler(a)
    /\ outcome = {}
    /\ evaluated = {}
    /\ projected = {}

(* SimBase.__init__ of both simulations: first = True; rb_discretization   *)
(* and reconstructor are not attributes yet (stored = {}).                 *)
UndefinedROM == [defined |-> FALSE, basis |-> <<>>]
NoData == [status |-> "none", Basis |-> <<>>,
           reduced_discretization |-> UndefinedROM, reconstructor |-> UndefinedROM]
NothingObserved == [fom_solves |-> <<>>, iterations |-> 0, extension_attempts |-> 0,
                    greedy_runs |-> 0, greedy_returns |-> 0]

InitSims(n) ==
    /\ samples = [i \in 1..n |-> i]
    /\ reduced = [first |-> TRUE, stored |-> {},
                  rb_discretization |-> UndefinedROM, reconstructor |-> UndefinedROM]
    /\ detailed = [first |-> TRUE]
    /\ pc = "idle"
    /\ call = {}
    /\ result = {}
    /\ ncalls = 0
    /\ Basis = <<>>
    /\ ROM = UndefinedROM
    /\ history = <<>>
    /\ u = {}
    /\ greedy_data = NoData
    /\ observed = NothingObserved

(* The detailed panel of a problem of any block counts; its simulation     *)
(* reads neither RBSIZE nor SNAPSHOTS.                                     *)
InitProblem ==
    /\ \E nb \in BlockCounts : InitGui([XBLOCKS |-> nb[1], YBLOCKS |-> nb[2], RBSIZE |-> 1])
    /\ InitSims(1)

(* The assembly evaluates every diffusion function at a point X            *)
Evaluate ==
    \E X \in Points(problem.num_blocks) :
        /\ evaluated' = {[X |-> X,
                          values |-> [k \in DOMAIN problem.diffusion_functions |->
                                         evaluate(problem.diffusion_functions[k], X)]]}
        /\ outcome' = {}
        /\ projected' = {}
        /\ UNCHANGED <<args, problem, spins>>
        /\ UNCHANGED <<simVars, greedyVars>>

(* A parameter functional is evaluated at a parameter of the parameter     *)
(* space                                                                   *)
Project ==
    \E k \in DOMAIN problem.parameter_functionals :
        LET f == problem.parameter_functionals[k]
            mu == DistinctParameter(problem.parameter_space.diffusion)
        IN  /\ projected' = {[k |-> k, value |-> ProjectionEvaluate(f, mu)]}
            /\ outcome' = {}
            /\ evaluated' = {}
            /\ UNCHANGED <<args, problem, spins>>
            /\ UNCHANGED <<simVars, greedyVars>>

(* spin.valueChanged -> SimPanel.solve_update of the detailed panel        *)
SpinChanged ==
    \E k \in DOMAIN spins, v \in 0..MaxSpinStep :
        /\ v # spins[k]
        /\ spins' = [spins EXCEPT ![k] = v]
        /\ LET mu == solve_update_mu(args, spins')
           IN  outcome' = {[mu |-> mu, U |-> DetailedSim_solve(problem, mu)]}
        /\ evaluated' = {}
        /\ projected' = {}
        /\ UNCHANGED <<args, problem>>
        /\ UNCHANGED <<simVars, greedyVars>>

(* The problem is assembled: its functions and functionals are evaluated   *)
NextProblem == Evaluate \/ Project

SpecProblem == InitProblem /\ [][NextProblem]_vars

(* The user turns the spin boxes of the detailed panel                     *)
NextGui == SpinChanged

SpecGui == InitProblem /\ [][NextGui]_vars

-----------------------------------------------------------------------------
(* The greedy algorithm with its collaborators (pymor.algorithms.greedy,   *)
(* gram_schmidt_basis_extension, the reductor), after sections 4.3 to 4.6  *)
(* of the specification. A snapshot FOM.solve(mu) is named by its sample   *)
(* mu; an estimate is a number of 0..MaxEstimate, any assignment of        *)
(* estimates to the samples being possible.                                *)

Last(sq) == sq[Len(sq)]
SeqRange(sq) == {sq[i] : i \in DOMAIN sq}

(* FullOrderModel.solve                                                    *)
FOM_solve(mu) == mu

(* Step 2: the sample with the largest estimate, the earliest on a tie     *)
SelectMax(est) ==
    CHOOSE i \in DOMAIN est :
        \A j \in DOMAIN est : est[j] < est[i] \/ (est[j] = est[i] /\ j >= i)

(* An extension that never rejects                                         *)
extend_always(basis, new_vector, dependent) ==
    [accepted |-> TRUE, new_basis |-> Append(basis, new_vector)]

(* BasisExtension.extend: a vector equal to a basis vector, or numerically *)
(* dependent on the basis, is rejected and the basis returned unchanged.   *)
extend(basis, new_vector, dependent) ==
    IF dependent \/ new_vector \in SeqRange(basis)
    THEN [accepted |-> FALSE, new_basis |-> basis]
    ELSE [accepted |-> TRUE, new_basis |-> Append(basis, new_vector)]

(* Step 5: the projection onto the basis, and the reconstructor of it      *)
project(basis) == [defined |-> TRUE, basis |-> basis]

(* use_estimator=False: the error of every sample is computed by a full    *)
(* solve                                                                   *)
use_estimator_off == FALSE

(* use_estimator=True of the call of greedy                                *)
use_estimator == TRUE

(* max_extensions=args['RBSIZE'] of the call of greedy, with a bug         *)
max_extensions_plus_one(a) == a.RBSIZE + 1

(* max_extensions=args['RBSIZE'] of the call of greedy                     *)
max_extensions(a) == a.RBSIZE

(* No target_error is passed to greedy: no tolerance is configured         *)
target_error == {}

(* ReducedSim._first with self.first = False assigned before greedy runs   *)
ReducedSim_first_enter_early(self) == [self EXCEPT !.first = FALSE]

(* ReducedSim._first up to the call of greedy: nothing of self is assigned *)
ReducedSim_first_enter(self) == self

(* ReducedSim._first after greedy returned, forgetting self.first = False  *)
ReducedSim_first_store_keepfirst(self, data) ==
    [self EXCEPT !.rb_discretization = data.reduced_discretization,
                 !.reconstructor = data.reconstructor,
                 !.stored = {"rb_discretization", "reconstructor"}]

(* ReducedSim._first after greedy returned                                 *)
ReducedSim_first_store(self, data) ==
    [self EXCEPT !.rb_discretization = data.reduced_discretization,
                 !.reconstructor = data.reconstructor,
                 !.stored = {"rb_discretization", "reconstructor"},
                 !.first = FALSE]

(* The last line of ReducedSim.solve:                                      *)
(* self.reconstructor.reconstruct(self.rb_discretization.solve(mu))        *)
ReducedSim_solve_return(self, p, mu) ==
    LET has == {"rb_discretization", "reconstructor"} \subseteq self.stored
    IN  [sim |-> "reduced",
         status |-> IF ~has THEN "AttributeError"
                    ELSE IF ~self.rb_discretization.defined THEN "UndefinedROM"
                    ELSE IF mu.shape # p.parameter_space.diffusion
                         THEN "ParameterTypeMismatch"
                    ELSE "ok",
         rb_invoked |-> has,
         first_at_invoke |-> self.first]

(* The parameters solve is called with: one of the parameter space, and    *)
(* the one the panel builds from its spin boxes.                           *)
SolveInputs ==
    {DistinctParameter(problem.parameter_space.diffusion), solve_update_mu(args, spins)}

GreedyReturn(status) ==
    [status |-> status, Basis |-> Basis,
     reduced_discretization |-> ROM, reconstructor |-> ROM]

ClearGreedy ==
    /\ Basis' = <<>>
    /\ ROM' = UndefinedROM
    /\ history' = <<>>
    /\ u' = {}
    /\ greedy_data' = NoData
    /\ observed' = [observed EXCEPT !.fom_solves = <<>>, !.iterations = 0,
                                    !.extension_attempts = 0]

Init ==
    /\ \E nb \in BlockCounts, r \in 0..MaxRBSize :
          InitGui([XBLOCKS |-> nb[1], YBLOCKS |-> nb[2], RBSIZE |-> r])
    /\ \E n \in 0..MaxTrain : InitSims(n)

(* ReducedSim.solve(mu): the whole call when the model is built, else up   *)
(* to the call of greedy in _first.                                        *)
ReducedSolve ==
    /\ pc = "idle"
    /\ ncalls < MaxCalls
    /\ \E mu \in SolveInputs :
          /\ ncalls' = ncalls + 1
          /\ IF reduced.first
             THEN /\ reduced' = ReducedSim_first_enter(reduced)
                  /\ call' = {[sim |-> "reduced", mu |-> mu]}
                  /\ pc' = "greedy"
                  /\ result' = {}
                  /\ observed' = [observed EXCEPT !.greedy_runs = @ + 1]
             ELSE /\ result' = {ReducedSim_solve_return(reduced, problem, mu)}
                  /\ UNCHANGED <<reduced, call, pc, observed>>
    /\ UNCHANGED <<probVars, samples, detailed, Basis, ROM, history, u, greedy_data>>

(* DetailedSim.solve(mu)                                                   *)
DetailedSolve ==
    /\ pc = "idle"
    /\ ncalls < MaxCalls
    /\ \E mu \in SolveInputs :
          result' = {[sim |-> "detailed", status |-> DetailedSim_solve(problem, mu).status,
                      rb_invoked |-> FALSE, first_at_invoke |-> detailed.first]}
    /\ ncalls' = ncalls + 1
    /\ UNCHANGED <<probVars, samples, reduced, detailed, pc, call, greedyVars>>

(* greedy is entered: an empty training set is reported at once            *)
GreedyEnter ==
    /\ pc = "greedy"
    /\ IF samples = <<>>
       THEN /\ greedy_data' = GreedyReturn("EmptyTrainingSet")
            /\ pc' = "raised"
       ELSE /\ pc' = "loop"
            /\ UNCHANGED greedy_data
    /\ UNCHANGED <<probVars, samples, reduced, detailed, call, result, ncalls,
                   Basis, ROM, history, u, observed>>

(* The head of the loop, and step 1                                        *)
GreedyLoop ==
    /\ pc = "loop"
    /\ IF Len(Basis) = max_extensions(args)
       THEN /\ greedy_data' = GreedyReturn("returned")
            /\ pc' = "returned"
            /\ UNCHANGED <<history, observed>>
       ELSE /\ observed' = [observed EXCEPT !.iterations = @ + 1]
            /\ UNCHANGED greedy_data
            /\ IF Basis = <<>>
               THEN /\ history' = Append(history, [mu |-> samples[1], estimated |-> FALSE,
                                                   err |-> 0])
                    /\ pc' = "fom"
               ELSE /\ pc' = "estimate"
                    /\ UNCHANGED history
    /\ UNCHANGED <<probVars, samples, reduced, detailed, call, result, ncalls, Basis, ROM, u>>

(* Step 2: every sample is estimated (or, without the estimator, solved in *)
(* full), the worst one selected                                           *)
GreedyEstimate ==
    /\ pc = "estimate"
    /\ \E est \in [DOMAIN samples -> 0..MaxEstimate] :
          LET i == SelectMax(est)
          IN  /\ observed' = IF use_estimator THEN observed
                             ELSE [observed EXCEPT !.fom_solves = @ \o samples]
              /\ IF \E t \in target_error : est[i] <= t
                 THEN /\ greedy_data' = GreedyReturn("returned")
                      /\ pc' = "returned"
                      /\ UNCHANGED history
                 ELSE /\ history' = Append(history, [mu |-> samples[i], estimated |-> TRUE,
                                                     err |-> est[i]])
                      /\ pc' = "fom"
                      /\ UNCHANGED greedy_data
    /\ UNCHANGED <<probVars, samples, reduced, detailed, call, result, ncalls, Basis, ROM, u>>

(* Step 3: the full order model is solved at the selected sample           *)
GreedySolve ==
    /\ pc = "fom"
    /\ u' = {FOM_solve(Last(history).mu)}
    /\ observed' = [observed EXCEPT !.fom_solves = Append(@, Last(history).mu)]
    /\ pc' = "extend"
    /\ UNCHANGED <<probVars, samples, reduced, detailed, call, result, ncalls,
                   Basis, ROM, history, greedy_data>>

(* Step 4: the basis is extended by the snapshot, or the loop ends         *)
GreedyExtend ==
    /\ pc = "extend"
    /\ \E dependent \in BOOLEAN, v \in u :
          LET r == extend(Basis, v, dependent)
          IN  /\ Basis' = r.new_basis
              /\ IF r.accepted
                 THEN /\ pc' = "project"
                      /\ UNCHANGED greedy_data
                 ELSE /\ pc' = "raised"
                      /\ greedy_data' = GreedyReturn("BasisExtensionStalled")
    /\ observed' = [observed EXCEPT !.extension_attempts = @ + 1]
    /\ UNCHANGED <<probVars, samples, reduced, detailed, call, result, ncalls, ROM, history, u>>

(* Step 5: the reduced model and the reconstructor are rebuilt             *)
GreedyProject ==
    /\ pc = "project"
    /\ ROM' = project(Basis)
    /\ u' = {}
    /\ pc' = "loop"
    /\ UNCHANGED <<probVars, samples, reduced, detailed, call, result, ncalls,
                   Basis, history, greedy_data, observed>>

(* greedy returned: _first stores its data, solve goes on to its last line *)
FirstReturn ==
    /\ pc = "returned"
    /\ reduced' = ReducedSim_first_store(reduced, greedy_data)
    /\ \E c \in call : result' = {ReducedSim_solve_return(reduced', problem, c.mu)}
    /\ call' = {}
    /\ pc' = "idle"
    /\ Basis' = <<>>
    /\ ROM' = UndefinedROM
    /\ history' = <<>>
    /\ u' = {}
    /\ greedy_data' = NoData
    /\ observed' = [observed EXCEPT !.fom_solves = <<>>, !.iterations = 0,
                                    !.extension_attempts = 0,
                                    !.greedy_returns = @ + 1]
    /\ UNCHANGED <<probVars, samples, detailed, ncalls>>

(* greedy raised: the exception leaves _first and solve                    *)
FirstRaise ==
    /\ pc = "raised"
    /\ result' = {[sim |-> "reduced", status |-> greedy_data.status,
                   rb_invoked |-> FALSE, first_at_invoke |-> reduced.first]}
    /\ call' = {}
    /\ pc' = "idle"
    /\ ClearGreedy
    /\ UNCHANGED <<probVars, samples, reduced, detailed, ncalls>>

GreedyStep ==
    \/ GreedyEnter
    \/ GreedyLoop
    \/ GreedyEstimate
    \/ GreedySolve
    \/ GreedyExtend
    \/ GreedyProject
    \/ FirstReturn
    \/ FirstRaise

Next == ReducedSolve \/ DetailedSolve \/ GreedyStep

Spec == Init /\ [][Next]_vars

(* A call of solve that has begun runs to its end: the program is          *)
(* single-threaded and synchronous.                                        *)
FairSpec == Spec /\ WF_vars(GreedyStep)

-----------------------------------------------------------------------------
(* Properties of the thermal block problem                                 *)

nx == problem.num_blocks[1]
ny == problem.num_blocks[2]
Range(f) == {f[k] : k \in DOMAIN f}
BlockOf(f) == <<f.name[2], f.name[3]>>

(* C1: for every block (x, y) with 0 <= x < nx and 0 <= y < ny the         *)
(* parameter functional built for it reads component 'diffusion', declared *)
(* with shape (ny, nx), at coordinates (ny-1-y, x), which lie inside the   *)
(* shape; evaluated at a parameter, it returns the entry stored there.     *)
C1_FunctionalReadsFlippedEntry ==
    /\ \A x \in 0..(nx - 1), y \in 0..(ny - 1) :
          /\ \E f \in Range(problem.parameter_functionals) : BlockOf(f) = <<x, y>>
          /\ \A f \in Range(problem.parameter_functionals) :
                BlockOf(f) = <<x, y>> =>
                    /\ f.component_name = "diffusion"
                    /\ f.component_shape = <<ny, nx>>
                    /\ f.component_shape = problem.parameter_space.diffusion
                    /\ f.coordinates = <<ny - 1 - y, x>>
                    /\ f.coordinates[1] \in 0..(ny - 1)
                    /\ f.coordinates[2] \in 0..(nx - 1)
    /\ \A e \in projected :
          LET b == BlockOf(problem.parameter_functionals[e.k])
          IN  e.value = [in_range |-> TRUE, value |-> (ny - 1 - b[2]) * nx + b[1]]

(* The functional of block (x=1, y=0) of a 2 x 2 problem was evaluated and *)
(* read the entry at (1, 1).                                               *)
C1_Witness ==
    /\ problem.num_blocks = <<2, 2>>
    /\ \E e \in projected :
          /\ BlockOf(problem.parameter_functionals[e.k]) = <<1, 0>>
          /\ problem.parameter_functionals[e.k].coordinates = <<1, 1>>
          /\ e.value.value = 3

(* C2: at every evaluated point of [0,1]^2, the edges x = 1 and y = 1      *)
(* included, exactly one block function is 1 and every other one is 0.     *)
C2_ExactlyOneBlockEverywhere ==
    \A e \in evaluated :
        /\ Cardinality({k \in DOMAIN e.values : e.values[k] = 1}) = 1
        /\ \A k \in DOMAIN e.values : e.values[k] \in {0, 1}

(* C3: diffusion_functions and parameter_functionals both have length      *)
(* nx*ny, their k-th entries belong to the same block, and the blocks map  *)
(* one to one onto the index set of the (ny, nx) array.                    *)
C3_AlignedBijection ==
    LET dfs == problem.diffusion_functions
        pfs == problem.parameter_functionals
    IN  /\ Len(dfs) = nx * ny
        /\ Len(pfs) = nx * ny
        /\ \A k \in DOMAIN pfs : BlockOf(pfs[k]) = <<dfs[k].x, dfs[k].y>>
        /\ \A k, l \in DOMAIN pfs : pfs[k].coordinates = pfs[l].coordinates => k = l
        /\ \A k, l \in DOMAIN dfs : <<dfs[k].x, dfs[k].y>> = <<dfs[l].x, dfs[l].y>> => k = l
        /\ {pfs[k].coordinates : k \in DOMAIN pfs} = Indices(<<ny, nx>>)

(* A 2 x 2 problem was built: its second diffusion function and its second *)
(* functional both belong to block (0, 1), and the functional, evaluated,  *)
(* read the entry at (0, 0).                                               *)
C3_Witness ==
    /\ problem.num_blocks = <<2, 2>>
    /\ Len(problem.parameter_functionals) = 4
    /\ problem.diffusion_functions[2].y = 1
    /\ problem.parameter_functionals[2].coordinates = <<0, 0>>
    /\ \E e \in projected : e.k = 2 /\ e.value.value = 0

(* C9: for every XBLOCKS, YBLOCKS >= 1 the parameter SimPanel.solve_update *)
(* builds has the component shape (YBLOCKS, XBLOCKS) of the problem's      *)
(* parameter space, and solving with it ends neither in a parameter type   *)
(* mismatch nor in an out-of-range read.                                   *)
C9_GuiParameterMatchesType ==
    \A e \in outcome :
        /\ e.mu.shape = <<args.YBLOCKS, args.XBLOCKS>>
        /\ e.mu.shape = problem.parameter_space.diffusion
        /\ e.U.status # "ParameterTypeMismatch"
        /\ ~e.U.read_error

-----------------------------------------------------------------------------
(* Properties of the simulations and of the greedy run                     *)

InGreedy == pc \in {"greedy", "loop", "estimate", "fom", "extend", "project"}
Selections == [i \in DOMAIN history |-> history[i].mu]

(* C4: over any sequence of ReducedSim.solve calls, failed greedy runs     *)
(* included, rb_discretization.solve and reconstructor.reconstruct are     *)
(* never invoked while self.first is True; self.first is False only after  *)
(* a greedy run returned and its reduced_discretization and reconstructor  *)
(* were stored.                                                            *)
C4_NoRomCallWhileUnbuilt ==
    /\ \A r \in result : r.sim = "reduced" /\ r.rb_invoked => ~r.first_at_invoke
    /\ \A r \in result :
          r.sim = "reduced" /\ r.status \in {"EmptyTrainingSet", "BasisExtensionStalled"}
              => ~r.rb_invoked /\ reduced.first
    /\ (InGreedy \/ pc \in {"returned", "raised"}) => reduced.first
    /\ ~reduced.first =>
          /\ observed.greedy_returns >= 1
          /\ reduced.stored = {"rb_discretization", "reconstructor"}

(* A greedy run failed, a later one returned, and the reduced model was    *)
(* solved.                                                                 *)
C4_Witness ==
    /\ observed.greedy_runs >= 2
    /\ observed.greedy_returns = 1
    /\ ~reduced.first
    /\ \E r \in result : r.sim = "reduced" /\ r.rb_invoked /\ r.status = "ok"

(* C5: the greedy loop on a non-empty training set with max_size = RBSIZE  *)
(* always terminates; the basis never has more than max_size vectors; and  *)
(* a run without a rejected extension (and without tolerance) returns      *)
(* exactly max_size basis vectors after exactly max_size iterations.       *)
C5_GreedyTerminatesAtMaxSize ==
    /\ [](Len(Basis) <= args.RBSIZE)
    /\ [](pc = "returned" =>
            /\ Len(greedy_data.Basis) = args.RBSIZE
            /\ observed.iterations = args.RBSIZE
            /\ observed.extension_attempts = args.RBSIZE)
    /\ ((pc = "greedy" /\ samples # <<>>) ~> (pc \in {"returned", "raised"}))

(* A run returned two basis vectors after two iterations.                  *)
C5_Witness ==
    /\ pc = "returned"
    /\ args.RBSIZE = 2
    /\ Len(greedy_data.Basis) = 2
    /\ observed.iterations = 2

(* C6: in a greedy run FOM.solve is invoked exactly once per iteration, at *)
(* the sample selected in that iteration and after the selection; the      *)
(* estimation over the training set invokes it never, so the FOM.solve     *)
(* calls are as many as the extension attempts.                            *)
C6_OneFomSolvePerIteration ==
    LET fs == observed.fom_solves
    IN  /\ Len(fs) <= Len(Selections)
        /\ \A i \in DOMAIN fs : fs[i] = Selections[i]
        /\ Len(fs) = observed.extension_attempts + (IF pc = "extend" THEN 1 ELSE 0)
        /\ pc = "estimate" =>
              Len(fs) = observed.iterations - 1 /\ Len(Selections) = observed.iterations - 1
        /\ pc = "fom" =>
              Len(fs) = observed.iterations - 1 /\ Len(Selections) = observed.iterations
        /\ pc \in {"extend", "project", "loop", "returned", "raised"} =>
              Len(fs) = observed.iterations /\ Len(Selections) = observed.iterations

(* A run over three samples returned after two FOM.solve calls, the second *)
(* at the third sample, which the estimates selected.                      *)
C6_Witness ==
    /\ pc = "returned"
    /\ Len(samples) = 3
    /\ observed.fom_solves = <<1, 3>>
    /\ history[2].estimated
    /\ observed.extension_attempts = 2

(* C7: when the extension rejects the snapshot (the same sample selected   *)
(* twice, for one), the basis is the one before that iteration, no further *)
(* iteration runs, and the loop ends reporting BasisExtensionStalled with  *)
(* the basis and reduced model built so far; an empty training set is      *)
(* reported as EmptyTrainingSet before any FOM.solve call.                 *)
C7_StallAndEmptyTrainingSet ==
    /\ \A i, j \in DOMAIN Basis : Basis[i] = Basis[j] => i = j
    /\ pc = "project" => Last(Basis) \notin SeqRange(SubSeq(Basis, 1, Len(Basis) - 1))
    /\ greedy_data.status = "BasisExtensionStalled" =>
          /\ pc = "raised"
          /\ Basis = [i \in 1..(Len(history) - 1) |-> FOM_solve(history[i].mu)]
          /\ greedy_data.Basis = Basis
          /\ Len(Basis) < args.RBSIZE
          /\ greedy_data.reduced_discretization =
                 (IF Basis = <<>> THEN UndefinedROM ELSE project(Basis))
          /\ greedy_data.reconstructor = greedy_data.reduced_discretization
          /\ observed.iterations = Len(history)
          /\ Len(observed.fom_solves) = observed.iterations
    /\ greedy_data.status = "EmptyTrainingSet" =>
          /\ pc = "raised"
          /\ samples = <<>>
          /\ observed.fom_solves = <<>>
          /\ greedy_data.Basis = <<>>
    /\ samples = <<>> => pc \in {"idle", "greedy", "raised"}
    /\ pc = "raised" => greedy_data.status \in {"BasisExtensionStalled", "EmptyTrainingSet"}

(* The second iteration selected the sample of the first one again: the    *)
(* run stalled with its one basis vector.                                  *)
C7_Witness ==
    /\ pc = "raised"
    /\ greedy_data.status = "BasisExtensionStalled"
    /\ Len(history) = 2
    /\ history[2].mu = history[1].mu
    /\ greedy_data.Basis = <<1>>
    /\ greedy_data.reduced_discretization = project(<<1>>)

(* C10: once a greedy run has returned, no later solve call invokes greedy *)
(* again, self.first never goes back to True, rb_discretization and        *)
(* reconstructor are never replaced; a DetailedSim.solve call invokes no   *)
(* greedy and changes no state.                                            *)
C10_BuiltIsAbsorbing ==
    [][/\ ~reduced.first =>
            /\ reduced' = reduced
            /\ observed'.greedy_runs = observed.greedy_runs
            /\ ~InGreedy'
       /\ observed.greedy_returns >= 1 =>
            /\ observed'.greedy_runs = observed.greedy_runs
            /\ observed'.greedy_returns = 1
            /\ reduced' = reduced
       /\ (ncalls' = ncalls + 1 /\ \E r \in result' : r.sim = "detailed") =>
            /\ reduced' = reduced
            /\ detailed' = detailed
            /\ pc' = pc
            /\ UNCHANGED <<probVars, samples, call, greedyVars>>
      ]_vars

(* The model was built by the first call and solved again by two more.     *)
C10_Witness ==
    /\ ~reduced.first
    /\ ncalls = 3
    /\ observed.greedy_runs = 1
    /\ observed.greedy_returns = 1
    /\ \E r \in result : r.sim = "reduced" /\ r.rb_invoked

====
